---- MODULE Spec2Model ----
(***************************************************************************)
(* jishaku.flags: the Flags registry built by the FlagMeta metaclass, the  *)
(* just-in-time resolution of a flag (Flag.resolve) from its override, the *)
(* process environment and its default, and the type-checked override      *)
(* assignment (FlagMeta.__setattr__).                                      *)
(*                                                                         *)
(* Python values are records [t, b, s, i]: t is the name of the value's    *)
(* type, and b, s, i carry a bool, a str (a sequence of one-character      *)
(* strings) or an int; the fields a type does not use stay at their zero.  *)
(***************************************************************************)
EXTENDS Integers, Sequences, FiniteSets, TLC

VARIABLES
    flag_map,   \* the class's flag_map: name -> Flag
    env,        \* os.environ restricted to the JISHAKU_<name> variables
    ret,        \* the last call made and its outcome
    last_set,   \* history: per flag, the value of the last assignment that returned
    attrs,      \* the class's other attributes, assigned after its creation
    threads     \* the reads in progress: per thread, its stack of frames

vars == <<flag_map, env, ret, last_set, attrs, threads>>

----------------------------------------------------------------------------
(* Python values *)

PyNone == [t |-> "NoneType", b |-> FALSE, s |-> <<>>, i |-> 0]

PyBool(x) == [t |-> "bool", b |-> x, s |-> <<>>, i |-> 0]

PyStr(x) == [t |-> "str", b |-> FALSE, s |-> x, i |-> 0]

PyInt(x) == [t |-> "int", b |-> FALSE, s |-> <<>>, i |-> x]

(* a function object, identified by the name of the flag whose default it is *)
PyFunction(x) == [t |-> "function", b |-> FALSE, s |-> x, i |-> 0]

(* truth value testing of the value types used here *)
Truthy(v) ==
    CASE v.t = "bool" -> v.b
      [] v.t = "str" -> v.s # <<>>
      [] v.t = "int" -> v.i # 0
      [] v.t = "NoneType" -> FALSE
      [] OTHER -> TRUE

(* isinstance(value, typing.Optional[flag_type]) *)
IsInstanceOrNone(value, flag_type) ==
    \/ value.t = flag_type
    \/ value.t = "bool" /\ flag_type = "int"
    \/ value.t = "NoneType"

(* isinstance(value, flag_type); bool is a subclass of int *)
IsInstance(value, flag_type) ==
    \/ value.t = flag_type
    \/ value.t = "bool" /\ flag_type = "int"

(* the outcome of a call: a returned value or a raised exception *)
Return(v) == [kind |-> "return", val |-> v, exc |-> ""]

Raise(e) == [kind |-> "raise", val |-> PyNone, exc |-> e]

----------------------------------------------------------------------------
(* str.strip and str.lower on sequences of characters *)

Whitespace == {" ", "\t", "\n", "\r"}

ToLower ==
    [A |-> "a", B |-> "b", C |-> "c", D |-> "d", E |-> "e", F |-> "f",
     G |-> "g", H |-> "h", I |-> "i", J |-> "j", K |-> "k", L |-> "l",
     M |-> "m", N |-> "n", O |-> "o", P |-> "p", Q |-> "q", R |-> "r",
     S |-> "s", T |-> "t", U |-> "u", V |-> "v", W |-> "w", X |-> "x",
     Y |-> "y", Z |-> "z"]

LowerChar(c) == IF c \in DOMAIN ToLower THEN ToLower[c] ELSE c

Lower(s) == [k \in 1..Len(s) |-> LowerChar(s[k])]

RECURSIVE LStrip(_)
LStrip(s) ==
    IF s # <<>> /\ Head(s) \in Whitespace THEN LStrip(Tail(s)) ELSE s

RECURSIVE RStrip(_)
RStrip(s) ==
    IF s # <<>> /\ s[Len(s)] \in Whitespace
    THEN RStrip(SubSeq(s, 1, Len(s) - 1))
    ELSE s

StripNothing(s) == s

Strip(s) == RStrip(LStrip(s))

ENABLED_SYMBOLS ==
    {<<"t", "r", "u", "e">>, <<"t">>, <<"y", "e", "s">>, <<"y">>,
     <<"o", "n">>, <<"1">>}

DISABLED_SYMBOLS ==
    {<<"f", "a", "l", "s", "e">>, <<"f">>, <<"n", "o">>, <<"n">>,
     <<"o", "f", "f">>, <<"0">>}

----------------------------------------------------------------------------
(* flag_type(env_value) and flag_type() for the types bool, str and int *)

Digits ==
    [c \in {"0", "1", "2", "3", "4", "5", "6", "7", "8", "9"} |->
        CASE c = "0" -> 0 [] c = "1" -> 1 [] c = "2" -> 2 [] c = "3" -> 3
          [] c = "4" -> 4 [] c = "5" -> 5 [] c = "6" -> 6 [] c = "7" -> 7
          [] c = "8" -> 8 [] c = "9" -> 9]

IsDigits(s) == s # <<>> /\ \A k \in 1..Len(s) : s[k] \in DOMAIN Digits

RECURSIVE DigitsValue(_)
DigitsValue(s) ==
    IF s = <<>> THEN 0
    ELSE 10 * DigitsValue(SubSeq(s, 1, Len(s) - 1)) + Digits[s[Len(s)]]

(* int(s) of a stripped string: an optional sign and decimal digits *)
IntOf(s) ==
    LET signed == s # <<>> /\ Head(s) \in {"+", "-"}
        body == IF signed THEN Tail(s) ELSE s
    IN  IF ~IsDigits(body) THEN Raise("ValueError")
        ELSE IF signed /\ Head(s) = "-" THEN Return(PyInt(0 - DigitsValue(body)))
        ELSE Return(PyInt(DigitsValue(body)))

(* flag_type(env_value) with a failed conversion swallowed into flag_type() *)
ConstructSwallowing(flag_type, s) ==
    CASE flag_type = "str" -> Return(PyStr(s))
      [] flag_type = "int" ->
            IF IntOf(s).kind = "raise" THEN Return(PyInt(0)) ELSE IntOf(s)
      [] flag_type = "bool" -> Return(PyBool(s # <<>>))
      [] OTHER -> Raise("TypeError")

Construct(flag_type, s) ==
    CASE flag_type = "str" -> Return(PyStr(s))
      [] flag_type = "int" -> IntOf(s)
      [] flag_type = "bool" -> Return(PyBool(s # <<>>))
      [] OTHER -> Raise("TypeError")

ZeroValue(flag_type) ==
    CASE flag_type = "str" -> PyStr(<<>>)
      [] flag_type = "int" -> PyInt(0)
      [] flag_type = "bool" -> PyBool(FALSE)

(* flag_type(): a stringified annotation is a str, which cannot be called *)
Construct0(flag_type) ==
    IF flag_type \in {"bool", "str", "int"} THEN Return(ZeroValue(flag_type))
    ELSE Raise("TypeError")

----------------------------------------------------------------------------
(* class Flag *)

Flag(name, flag_type, default, override) ==
    [name |-> name, flag_type |-> flag_type, default |-> default,
     override |-> override]

(* os.getenv(f"JISHAKU_{name}", ""): the environment is keyed here by the *)
(* flag's name, the prefix being the same for every flag                  *)
Getenv(ev, name) == IF ev[name].set THEN ev[name].val ELSE <<>>

(* self.override is not None *)
HasOverrideTruthy(self) == Truthy(self.override)

HasOverride(self) == self.override # PyNone

(* the reading of a bool flag's environment string: "unmatched" when it *)
(* is in neither tuple of symbols                                       *)
BoolFromEnvCaseSensitive(env_value) ==
    IF env_value \in ENABLED_SYMBOLS THEN "enabled"
    ELSE IF env_value \in DISABLED_SYMBOLS THEN "disabled"
    ELSE "unmatched"

BoolFromEnvTwoWay(env_value) ==
    IF Lower(env_value) \in ENABLED_SYMBOLS THEN "enabled" ELSE "disabled"

BoolFromEnv(env_value) ==
    IF Lower(env_value) \in ENABLED_SYMBOLS THEN "enabled"
    ELSE IF Lower(env_value) \in DISABLED_SYMBOLS THEN "disabled"
    ELSE "unmatched"

RECURSIVE Resolve(_, _, _)
RECURSIVE CallFunction(_, _, _)
RECURSIVE GetAttr(_, _, _)

(* Flag.resolve with the fallback consulted before the environment *)
ResolveDefaultFirst(fm, ev, name) ==
    LET self == fm[name]
        env_value == Strip(Getenv(ev, name))
    IN  IF HasOverride(self) THEN Return(self.override)
        ELSE IF self.default # PyNone
        THEN IF self.default.t = "function"
             THEN CallFunction(self.default, fm, ev)
             ELSE Return(self.default)
        ELSE IF env_value # <<>>
        THEN IF self.flag_type = "bool"
             THEN CASE BoolFromEnv(env_value) = "enabled" -> Return(PyBool(TRUE))
                    [] BoolFromEnv(env_value) = "disabled" -> Return(PyBool(FALSE))
                    [] OTHER -> Construct0(self.flag_type)
             ELSE Construct(self.flag_type, env_value)
        ELSE Construct0(self.flag_type)

(* Flag.resolve(self, flags), self being fm[name] and flags the class *)
(* whose flag_map is fm, read in the environment ev                   *)
Resolve(fm, ev, name) ==
    LET self == fm[name]
        env_value == Strip(Getenv(ev, name))
        fallback ==
            IF self.default # PyNone
            THEN IF self.default.t = "function"
                 THEN CallFunction(self.default, fm, ev)
                 ELSE Return(self.default)
            ELSE Construct0(self.flag_type)
    IN  IF HasOverride(self) THEN Return(self.override)
        ELSE IF env_value # <<>>
        THEN IF self.flag_type = "bool"
             THEN CASE BoolFromEnv(env_value) = "enabled" -> Return(PyBool(TRUE))
                    [] BoolFromEnv(env_value) = "disabled" -> Return(PyBool(FALSE))
                    [] OTHER -> fallback
             ELSE Construct(self.flag_type, env_value)
        ELSE fallback

(* the default of SCOPE_PREFIX: lambda flags: '' if flags.NO_UNDERSCORE else '_' *)
ScopePrefixDefault == PyFunction(<<"SCOPE_PREFIX">>)

(* lambda flags: '_' if flags.NO_UNDERSCORE else '' *)
CallFunctionInverted(f, fm, ev) ==
    LET dep == GetAttr(fm, ev, "NO_UNDERSCORE")
    IN  IF dep.kind = "raise" THEN dep
        ELSE IF Truthy(dep.val) THEN Return(PyStr(<<"_">>))
        ELSE Return(PyStr(<<>>))

CallFunction(f, fm, ev) ==
    LET dep == GetAttr(fm, ev, "NO_UNDERSCORE")
    IN  IF dep.kind = "raise" THEN dep
        ELSE IF Truthy(dep.val) THEN Return(PyStr(<<>>))
        ELSE Return(PyStr(<<"_">>))

(* FlagMeta.__getattr__ for a name that normal lookup does not find *)
GetAttr(fm, ev, name) ==
    IF name \in DOMAIN fm THEN Resolve(fm, ev, name)
    ELSE Raise("AttributeError")

(* FlagMeta.__setattr__ on a name of flag_map: the outcome and the new map *)
SetAttrUnchecked(fm, name, value) ==
    [out |-> IF IsInstance(value, fm[name].flag_type)
             THEN Return(PyNone) ELSE Raise("ValueError"),
     flag_map |-> [fm EXCEPT ![name].override = value]]

(* FlagMeta.__setattr__ storing into the flag's default, not its override *)
SetAttrWrongField(fm, name, value) ==
    IF fm[name].flag_type \notin {"bool", "str", "int"}
    THEN [out |-> Raise("TypeError"), flag_map |-> fm]
    ELSE IF ~IsInstance(value, fm[name].flag_type)
    THEN [out |-> Raise("ValueError"), flag_map |-> fm]
    ELSE [out |-> Return(PyNone),
          flag_map |-> [fm EXCEPT ![name].default = value]]

SetAttr(fm, name, value) ==
    IF fm[name].flag_type \notin {"bool", "str", "int"}
    THEN [out |-> Raise("TypeError"), flag_map |-> fm]
    ELSE IF ~IsInstance(value, fm[name].flag_type)
    THEN [out |-> Raise("ValueError"), flag_map |-> fm]
    ELSE [out |-> Return(PyNone),
          flag_map |-> [fm EXCEPT ![name].override = value]]

----------------------------------------------------------------------------
(* FlagMeta.__new__ on a class body: a sequence of annotated names, each *)
(* with the value assigned to it in the body, if any. The annotations    *)
(* are those of attrs['__annotations__'] (line 77); from Python 3.14 on  *)
(* the same mapping comes from the class's __annotate__ (lines 87-99).   *)

Types == {"bool", "str", "int"}

Annotated(name, flag_type) ==
    [name |-> name, flag_type |-> flag_type, assigned |-> FALSE,
     tuple |-> FALSE, default |-> PyNone, handler |-> PyNone]

AnnotatedAssigned(name, flag_type, default) ==
    [name |-> name, flag_type |-> flag_type, assigned |-> TRUE,
     tuple |-> FALSE, default |-> default, handler |-> PyNone]

(* the last entry of the body for a name, as the class namespace keeps it *)
LastOf(body, name, S) ==
    body[CHOOSE k \in S : \A j \in S : j <= k]

FlagMetaNew(body) ==
    LET names == {body[k].name : k \in 1..Len(body)}
        annotation(n) ==
            LastOf(body, n, {k \in 1..Len(body) : body[k].name = n}).flag_type
        assignments(n) ==
            {k \in 1..Len(body) : body[k].name = n /\ body[k].assigned}
        popped(n) ==
            IF assignments(n) = {} THEN Annotated(n, annotation(n))
            ELSE LastOf(body, n, assignments(n))
        first == annotation(body[1].name)
    IN  IF body # <<>> /\ first \notin Types
        THEN [kind |-> "raise", exc |-> "RuntimeError", flag_map |-> <<>>]
        ELSE [kind |-> "return", exc |-> "",
              flag_map |->
                [n \in names |->
                    Flag(n, annotation(n), popped(n).default,
                         IF popped(n).tuple THEN popped(n).handler ELSE PyNone)]]

(* name: flag_type = (default, handler), the pair form of lines 113-114 *)
AnnotatedPair(name, flag_type, default, handler) ==
    [name |-> name, flag_type |-> flag_type, assigned |-> TRUE,
     tuple |-> TRUE, default |-> default, handler |-> handler]

(* class Flags *)
FlagsBody ==
    <<Annotated("HIDE", "bool"),
      Annotated("RETAIN", "bool"),
      Annotated("NO_UNDERSCORE", "bool"),
      AnnotatedAssigned("SCOPE_PREFIX", "str", ScopePrefixDefault),
      Annotated("FORCE_PAGINATOR", "bool"),
      Annotated("NO_DM_TRACEBACK", "bool"),
      Annotated("USE_BRAILLE_J", "bool")>>

(* a class body that also declares plain defaults, for a bool and a str *)
(* flag, and a flag of a type whose conversion can raise                 *)
PlainDefaultsBody ==
    <<AnnotatedAssigned("VERBOSE", "bool", PyBool(TRUE)),
      Annotated("NO_UNDERSCORE", "bool"),
      AnnotatedAssigned("SCOPE_PREFIX", "str", ScopePrefixDefault),
      AnnotatedAssigned("GREETING", "str", PyStr(<<"h", "i">>)),
      Annotated("LIMIT", "int")>>

----------------------------------------------------------------------------
(* the state and the calls *)

(* at most this many sources are in use at once: override slots that are *)
(* set plus environment variables that are set                           *)
MaxTouched == 2

Unset == [set |-> FALSE, val |-> <<>>]

Overridden(fm) == {n \in DOMAIN fm : fm[n].override # PyNone}

EnvSet(ev) == {n \in DOMAIN ev : ev[n].set}

Touched(fm, ev) == Cardinality(Overridden(fm)) + Cardinality(EnvSet(ev))

Called(op, name, out) ==
    [op |-> op, name |-> name, kind |-> out.kind, val |-> out.val,
     exc |-> out.exc]

(* the module has been imported: class Flags exists, nothing is overridden *)
Init ==
    /\ flag_map = FlagMetaNew(FlagsBody).flag_map
    /\ env = [n \in DOMAIN flag_map |-> Unset]
    /\ ret = Called("import", "", Return(PyNone))
    /\ last_set = [n \in DOMAIN flag_map |-> PyNone]
    /\ attrs = <<>>
    /\ threads = <<>>

(* Flags.<name>, keeping what it resolved in the override slot *)
GetMemoizing(name) ==
    /\ ret' = Called("get", name, GetAttr(flag_map, env, name))
    /\ flag_map' = [flag_map EXCEPT ![name].override = ret'.val]
    /\ UNCHANGED <<env, last_set, attrs>>

(* Flags.<name>, the read using the override up *)
GetOneShot(name) ==
    /\ ret' = Called("get", name, GetAttr(flag_map, env, name))
    /\ flag_map' = [flag_map EXCEPT ![name].override = PyNone]
    /\ UNCHANGED <<env, last_set, attrs>>

(* Flags.<name> *)
Get(name) ==
    /\ ret' = Called("get", name, GetAttr(flag_map, env, name))
    /\ UNCHANGED <<flag_map, env, last_set, attrs>>

(* Flags.<name> = value *)
Set(name, value) ==
    /\ name \in DOMAIN flag_map
    /\ flag_map' = SetAttr(flag_map, name, value).flag_map
    /\ Touched(flag_map', env) <= MaxTouched
    /\ ret' = Called("set", name, SetAttr(flag_map, name, value).out)
    /\ last_set' = IF ret'.kind = "return"
                   THEN [last_set EXCEPT ![name] = value]
                   ELSE last_set
    /\ UNCHANGED <<env, attrs>>

(* os.environ[f"JISHAKU_{name}"] = s *)
Putenv(name, s) ==
    /\ env' = [env EXCEPT ![name] = [set |-> TRUE, val |-> s]]
    /\ Touched(flag_map, env') <= MaxTouched
    /\ ret' = Called("putenv", "", Return(PyNone))
    /\ UNCHANGED <<flag_map, last_set, attrs>>

(* del os.environ[f"JISHAKU_{name}"] *)
Unsetenv(name) ==
    /\ env[name].set
    /\ env' = [env EXCEPT ![name] = Unset]
    /\ ret' = Called("unsetenv", "", Return(PyNone))
    /\ UNCHANGED <<flag_map, last_set, attrs>>

(* the values assigned and the environment strings written *)
SetValues ==
    {PyBool(TRUE), PyBool(FALSE), PyStr(<<>>), PyStr(<<"x">>), PyInt(1),
     PyNone}

EnvValues == {<<"0">>, <<"O", "n">>, <<" ", "x">>, <<" ">>}

Next ==
    \/ \E name \in DOMAIN flag_map : Get(name) /\ UNCHANGED threads
    \/ \E name \in DOMAIN flag_map, value \in SetValues :
          Set(name, value) /\ UNCHANGED threads
    \/ \E name \in DOMAIN flag_map, s \in EnvValues :
          Putenv(name, s) /\ UNCHANGED threads
    \/ \E name \in DOMAIN flag_map : Unsetenv(name) /\ UNCHANGED threads

Spec == Init /\ [][Next]_vars

----------------------------------------------------------------------------
(* The environment as the process finds it at start: one JISHAKU_ variable *)
(* holds a word of the boolean vocabulary in some letter case and with     *)
(* some surrounding whitespace, or a string outside the vocabulary; the    *)
(* class declares plain defaults besides the computed one.                 *)

ToUpper ==
    [a |-> "A", b |-> "B", c |-> "C", d |-> "D", e |-> "E", f |-> "F",
     g |-> "G", h |-> "H", i |-> "I", j |-> "J", k |-> "K", l |-> "L",
     m |-> "M", n |-> "N", o |-> "O", p |-> "P", q |-> "Q", r |-> "R",
     s |-> "S", t |-> "T", u |-> "U", v |-> "V", w |-> "W", x |-> "X",
     y |-> "Y", z |-> "Z"]

UpperChar(c) == IF c \in DOMAIN ToUpper THEN ToUpper[c] ELSE c

EnabledWords ==
    {<<"t", "r", "u", "e">>, <<"t">>, <<"y", "e", "s">>, <<"y">>,
     <<"o", "n">>, <<"1">>}

DisabledWords ==
    {<<"f", "a", "l", "s", "e">>, <<"f">>, <<"n", "o">>, <<"n">>,
     <<"o", "f", "f">>, <<"0">>}

CaseVariants(w) ==
    {w,
     [k \in 1..Len(w) |-> UpperChar(w[k])],
     [k \in 1..Len(w) |-> IF k = 1 THEN UpperChar(w[k]) ELSE w[k]],
     [k \in 1..Len(w) |-> IF k % 2 = 0 THEN UpperChar(w[k]) ELSE w[k]]}

Paddings(w) == {w, <<"\t", " ">> \o w \o <<" ", "\n">>}

OtherStrings ==
    {<<>>, <<" ", "\n">>, <<"b", "a", "n", "a", "n", "a">>, <<"2">>,
     <<"y", "e", "s", "s">>, <<"t", "r", "u">>, <<"o", " ", "n">>,
     <<" ", "-", "1">>}

EnvStrings ==
    UNION {Paddings(v) : v \in UNION {CaseVariants(w) : w \in EnabledWords \cup DisabledWords}}
        \cup OtherStrings

InitEnviron ==
    /\ flag_map = FlagMetaNew(PlainDefaultsBody).flag_map
    /\ \E name \in DOMAIN flag_map, s \in EnvStrings :
          env = [n \in DOMAIN flag_map |->
                    IF n = name THEN [set |-> TRUE, val |-> s] ELSE Unset]
    /\ ret = Called("import", "", Return(PyNone))
    /\ last_set = [n \in DOMAIN flag_map |-> PyNone]
    /\ attrs = <<>>
    /\ threads = <<>>

NextEnviron ==
    \/ \E name \in DOMAIN flag_map : Get(name) /\ UNCHANGED threads
    \/ \E name \in DOMAIN flag_map, value \in SetValues :
          Set(name, value) /\ UNCHANGED threads
    \/ \E name \in DOMAIN flag_map : Unsetenv(name) /\ UNCHANGED threads

SpecEnviron == InitEnviron /\ [][NextEnviron]_vars

----------------------------------------------------------------------------
(* The class statement itself as a step: a module declares one class with *)
(* metaclass FlagMeta, and the class is read and assigned only if the     *)
(* statement returned.                                                    *)

(* some function given as the second element of a default pair *)
HandlerFunction == PyFunction(<<"handler">>)

(* class bodies by class name. Future: every annotation is a string, as    *)
(* under "from __future__ import annotations". Forward: one annotation    *)
(* written as a string after one that is a type. Twice: a name annotated  *)
(* and then annotated and assigned again. Handled: defaults given as      *)
(* (default, handler) pairs, with and without a handler.                  *)
ClassBodies ==
    [Plain |-> PlainDefaultsBody,
     Future |-> <<Annotated("HIDE", "'bool'"), Annotated("RETAIN", "'bool'")>>,
     Forward |-> <<Annotated("HIDE", "bool"), Annotated("LIMIT", "'int'")>>,
     Twice |-> <<Annotated("HIDE", "bool"),
                 AnnotatedAssigned("HIDE", "str", PyStr(<<"x">>))>>,
     Handled |-> <<AnnotatedPair("RETAIN", "bool", PyBool(TRUE), HandlerFunction),
                   AnnotatedPair("PREFIX", "str", PyStr(<<"j">>), PyNone),
                   Annotated("HIDE", "bool")>>]

(* no class yet *)
InitDeclare ==
    /\ flag_map = <<>>
    /\ env = <<>>
    /\ ret = Called("start", "", Return(PyNone))
    /\ last_set = <<>>
    /\ attrs = <<>>
    /\ threads = <<>>

(* class <cls>(metaclass=FlagMeta): <ClassBodies[cls]> *)
Declare(cls) ==
    /\ ret.op = "start"
    /\ LET made == FlagMetaNew(ClassBodies[cls])
       IN  /\ flag_map' = made.flag_map
           /\ env' = [n \in DOMAIN made.flag_map |-> Unset]
           /\ last_set' = [n \in DOMAIN made.flag_map |-> PyNone]
           /\ ret' = Called("class", cls,
                            IF made.kind = "raise" THEN Raise(made.exc)
                            ELSE Return(PyNone))
    /\ UNCHANGED attrs

NextDeclare ==
    \/ \E cls \in DOMAIN ClassBodies : Declare(cls) /\ UNCHANGED threads
    \/ \E name \in DOMAIN flag_map : Get(name) /\ UNCHANGED threads
    \/ \E name \in DOMAIN flag_map, value \in SetValues :
          Set(name, value) /\ UNCHANGED threads
    \/ \E name \in DOMAIN flag_map, s \in EnvValues :
          Putenv(name, s) /\ UNCHANGED threads
    \/ \E name \in DOMAIN flag_map : Unsetenv(name) /\ UNCHANGED threads

SpecDeclare == InitDeclare /\ [][NextDeclare]_vars

----------------------------------------------------------------------------
(* Attributes of the class that are not flags. An assignment to a name    *)
(* that flag_map does not hold goes to type.__setattr__ (line 135), and a *)
(* read finds such an attribute by normal lookup, before __getattr__ is   *)
(* tried. flag_map is itself an attribute of the class, and no key of     *)
(* flag_map: assigning to it replaces the registry.                       *)

OtherNames == {"extra"}

OtherValues == {PyInt(1), PyStr(<<"x">>)}

(* dicts a caller can build from the registry and assign back:            *)
(* {**Flags.flag_map, 'EXTRA': Flag('EXTRA', bool)} and                   *)
(* {k: v for k, v in Flags.flag_map.items() if k != 'HIDE'}               *)
Dicts(fm) ==
    {[n \in DOMAIN fm \cup {"EXTRA"} |->
        IF n \in DOMAIN fm THEN fm[n] ELSE Flag("EXTRA", "bool", PyNone, PyNone)],
     [n \in DOMAIN fm \ {"HIDE"} |-> fm[n]]}

(* Flags.<name> = value for a name that is no key of flag_map *)
SetOther(name, value) ==
    /\ name \notin DOMAIN flag_map
    /\ attrs' = [n \in DOMAIN attrs \cup {name} |->
                    IF n = name THEN value ELSE attrs[n]]
    /\ ret' = Called("set", name, Return(PyNone))
    /\ UNCHANGED <<flag_map, env, last_set>>

(* Flags.flag_map = m: "flag_map" is no key of flag_map, so line 135 *)
(* stores m as the class's flag_map                                   *)
SetFlagMap(m) ==
    /\ "flag_map" \notin DOMAIN flag_map
    /\ m # flag_map
    /\ flag_map' = m
    /\ env' = [n \in DOMAIN m |-> IF n \in DOMAIN env THEN env[n] ELSE Unset]
    /\ last_set' = [n \in DOMAIN m |->
                       IF n \in DOMAIN last_set THEN last_set[n] ELSE PyNone]
    /\ ret' = Called("set", "flag_map", Return(PyNone))
    /\ UNCHANGED attrs

(* Flags.<name> for a name that is no key of flag_map *)
GetOther(name) ==
    /\ name \notin DOMAIN flag_map
    /\ ret' = Called("get", name,
                     IF name \in DOMAIN attrs THEN Return(attrs[name])
                     ELSE GetAttr(flag_map, env, name))
    /\ UNCHANGED <<flag_map, env, last_set, attrs>>

NextAttrs ==
    \/ \E name \in DOMAIN flag_map : Get(name) /\ UNCHANGED threads
    \/ \E name \in DOMAIN flag_map, value \in SetValues :
          Set(name, value) /\ UNCHANGED threads
    \/ \E name \in OtherNames : GetOther(name) /\ UNCHANGED threads
    \/ \E name \in OtherNames, value \in OtherValues :
          SetOther(name, value) /\ UNCHANGED threads
    \/ \E m \in Dicts(flag_map) : SetFlagMap(m) /\ UNCHANGED threads

SpecAttrs == Init /\ [][NextAttrs]_vars

----------------------------------------------------------------------------
(* A read in steps, as a thread makes it while other threads assign and   *)
(* change the environment. A thread's stack holds a frame per call of     *)
(* Flag.resolve and per call of a default function. The steps are the     *)
(* reads of shared state: the test of self.override (line 43), the read   *)
(* of self.override that is returned (line 44), and os.getenv (line 47);  *)
(* what runs between them is local to the thread. An assignment is one    *)
(* step: its type check (line 130) reads the argument and flag_type,      *)
(* which nothing writes, and line 133 is a single store.                  *)

Readers == {"reader"}

Frame(fn, name, pc) == [fn |-> fn, name |-> name, pc |-> pc]

NoRead == [kind |-> "none", val |-> PyNone, exc |-> ""]

(* a default function that reads the flag it is the default of *)
ReadsItself(f) == f.s[1]

(* a default function that reads another flag: flags.HIDE *)
ReadsHide(f) == "HIDE"

(* the flag that a default function reads: flags.NO_UNDERSCORE (line 159) *)
Reads(f) == "NO_UNDERSCORE"

(* '' if flags.NO_UNDERSCORE else '_', given the outcome of the read *)
ScopePrefixOf(dep) ==
    IF dep.kind = "raise" THEN dep
    ELSE IF Truthy(dep.val) THEN Return(PyStr(<<>>))
    ELSE Return(PyStr(<<"_">>))

(* lines 47-65 of Flag.resolve, the override being None: the outcome, or *)
(* kind "call" with the default function that is to be called            *)
FromEnvironment(self, ev) ==
    LET env_value == Strip(Getenv(ev, self.name))
        fallback ==
            IF self.default # PyNone
            THEN IF self.default.t = "function"
                 THEN [kind |-> "call", val |-> self.default, exc |-> ""]
                 ELSE Return(self.default)
            ELSE Construct0(self.flag_type)
    IN  IF env_value # <<>>
        THEN IF self.flag_type = "bool"
             THEN CASE BoolFromEnv(env_value) = "enabled" -> Return(PyBool(TRUE))
                    [] BoolFromEnv(env_value) = "disabled" -> Return(PyBool(FALSE))
                    [] OTHER -> fallback
             ELSE Construct(self.flag_type, env_value)
        ELSE fallback

(* the frames under the top one take the value it returns: a default      *)
(* function makes its result of it, a resolve returns it as it is (line   *)
(* 61)                                                                    *)
RECURSIVE Unwind(_, _)
Unwind(stack, out) ==
    IF stack = <<>> THEN out
    ELSE Unwind(SubSeq(stack, 1, Len(stack) - 1),
                IF stack[Len(stack)].fn = "function" THEN ScopePrefixOf(out)
                ELSE out)

Top(th) == th.stack[Len(th.stack)]

Running(th) == th.stack # <<>>

At(th, pc) == Running(th) /\ Top(th).fn = "resolve" /\ Top(th).pc = pc

(* the two sources of flag n that a read looks at one after the other: *)
(* its override slot, and what it resolves to without one              *)
View(fm, ev, n) ==
    [override |-> fm[n].override,
     rest |-> GetAttr([fm EXCEPT ![n].override = PyNone], ev, n)]

(* a thread that is making no read; the fields after dep are history:     *)
(* steps counts the steps of the read, allowed holds what the flag read   *)
(* resolved to when the read began and the values assigned to it since    *)
(* (empty once something else was written), and, in a read of             *)
(* SCOPE_PREFIX, seen holds what NO_UNDERSCORE resolved to at the         *)
(* instants since the read began, and views the sources of NO_UNDERSCORE  *)
(* at the instants since the default function was called                  *)
IdleThread ==
    [stack |-> <<>>, name |-> "", got |-> Return(PyNone), dep |-> NoRead,
     steps |-> 0, allowed |-> {}, seen |-> {}, views |-> {}]

(* the top frame returns out, and with it the whole read *)
Finish(th, out) ==
    LET rest == SubSeq(th.stack, 1, Len(th.stack) - 1)
    IN  [th EXCEPT !.stack = <<>>,
                   !.got = Unwind(rest, out),
                   !.dep = IF rest = <<>> THEN NoRead ELSE out,
                   !.steps = th.steps + 1]

(* Flags.<name> is entered: __getattr__ finds name in flag_map and calls *)
(* resolve (lines 121-122)                                               *)
Begin(t, name) ==
    /\ ~Running(threads[t])
    /\ name \in DOMAIN flag_map
    /\ threads' = [threads EXCEPT ![t] =
          [stack |-> <<Frame("resolve", name, "override")>>,
           name |-> name, got |-> Return(PyNone), dep |-> NoRead, steps |-> 0,
           allowed |-> {GetAttr(flag_map, env, name)},
           seen |-> IF name # "SCOPE_PREFIX" THEN {}
                    ELSE {GetAttr(flag_map, env, "NO_UNDERSCORE")},
           views |-> {}]]
    /\ UNCHANGED <<flag_map, env, ret, last_set, attrs>>

(* if self.override is not None (line 43) *)
TestOverride(t) ==
    /\ At(threads[t], "override")
    /\ LET th == threads[t]
           pc == IF HasOverride(flag_map[Top(th).name]) THEN "return"
                 ELSE "environment"
       IN  threads' = [threads EXCEPT ![t] =
              [th EXCEPT !.stack[Len(th.stack)].pc = pc,
                         !.steps = th.steps + 1]]
    /\ UNCHANGED <<flag_map, env, ret, last_set, attrs>>

(* return self.flag_type() in the place of line 44 *)
ReturnZeroValue(t) ==
    /\ At(threads[t], "return")
    /\ threads' = [threads EXCEPT ![t] =
          Finish(threads[t], Construct0(flag_map[Top(threads[t]).name].flag_type))]
    /\ UNCHANGED <<flag_map, env, ret, last_set, attrs>>

(* return self.override (line 44) *)
ReturnOverride(t) ==
    /\ At(threads[t], "return")
    /\ threads' = [threads EXCEPT ![t] =
          Finish(threads[t], Return(flag_map[Top(threads[t]).name].override))]
    /\ UNCHANGED <<flag_map, env, ret, last_set, attrs>>

(* os.getenv and what follows it (lines 47-65): the read returns, or the *)
(* default function is called and reads its flag (line 159), which       *)
(* enters resolve for that flag                                          *)
ReadEnvironment(t) ==
    /\ At(threads[t], "environment")
    /\ LET th == threads[t]
           self == flag_map[Top(th).name]
           out == FromEnvironment(self, env)
       IN  threads' = [threads EXCEPT ![t] =
              IF out.kind = "call"
              THEN [th EXCEPT
                      !.stack = [th.stack EXCEPT ![Len(th.stack)].pc = "default"]
                          \o <<Frame("function", self.name, "call"),
                               Frame("resolve", Reads(out.val), "override")>>,
                      !.steps = th.steps + 1,
                      !.views = {View(flag_map, env, "NO_UNDERSCORE")}]
              ELSE Finish(th, out)]
    /\ UNCHANGED <<flag_map, env, ret, last_set, attrs>>

(* the history of a read in progress, after another thread's assignment *)
(* to wname that returned (wname "" for none) or change of environment  *)
Observe(th, fm, ev, wname) ==
    IF ~Running(th) THEN th
    ELSE [th EXCEPT
            !.allowed = IF wname = th.name /\ th.allowed # {}
                        THEN th.allowed \cup {Return(fm[wname].override)}
                        ELSE {},
            !.seen = IF th.seen = {} THEN {}
                     ELSE th.seen \cup {GetAttr(fm, ev, "NO_UNDERSCORE")},
            !.views = IF th.views = {} THEN {}
                      ELSE th.views \cup {View(fm, ev, "NO_UNDERSCORE")}]

Observed(wname) ==
    threads' = [t \in DOMAIN threads |-> Observe(threads[t], flag_map', env', wname)]

(* the flags the other threads assign to and whose variables they change, *)
(* and the values and strings they use                                    *)
WrittenNames == {"NO_UNDERSCORE", "SCOPE_PREFIX"}

WrittenValues == {PyBool(TRUE), PyBool(FALSE), PyStr(<<"x">>), PyNone}

WrittenStrings == {<<"0">>, <<"O", "n">>}

InitThreads ==
    /\ flag_map = FlagMetaNew(FlagsBody).flag_map
    /\ env = [n \in DOMAIN flag_map |-> Unset]
    /\ ret = Called("import", "", Return(PyNone))
    /\ last_set = [n \in DOMAIN flag_map |-> PyNone]
    /\ attrs = <<>>
    /\ threads = [t \in Readers |-> IdleThread]

NextThreads ==
    \/ \E t \in Readers, name \in DOMAIN flag_map : Begin(t, name)
    \/ \E t \in Readers : TestOverride(t)
    \/ \E t \in Readers : ReturnOverride(t)
    \/ \E t \in Readers : ReadEnvironment(t)
    \/ \E name \in WrittenNames, value \in WrittenValues :
          /\ Set(name, value)
          /\ IF ret'.kind = "return" THEN Observed(name) ELSE UNCHANGED threads
    \/ \E name \in WrittenNames, s \in WrittenStrings :
          Putenv(name, s) /\ env' # env /\ Observed("")
    \/ \E name \in WrittenNames : Unsetenv(name) /\ Observed("")

SpecThreads == InitThreads /\ [][NextThreads]_vars

----------------------------------------------------------------------------
(* What a read is to return, stated from the sources: the override if one *)
(* is set, else the environment string if it is usable, else the default. *)

SameLetter(c, d) ==
    \/ c = d
    \/ c \in DOMAIN ToUpper /\ ToUpper[c] = d
    \/ d \in DOMAIN ToUpper /\ ToUpper[d] = c

SameIgnoringCase(a, b) ==
    Len(a) = Len(b) /\ \A k \in 1..Len(a) : SameLetter(a[k], b[k])

(* s without its leading and trailing whitespace *)
Core(s) ==
    LET inked == {k \in 1..Len(s) : s[k] \notin Whitespace}
    IN  IF inked = {} THEN <<>>
        ELSE SubSeq(s, CHOOSE k \in inked : \A j \in inked : k <= j,
                       CHOOSE k \in inked : \A j \in inked : j <= k)

Means(s, words) == \E w \in words : SameIgnoringCase(Core(s), w)

EnvString(ev, n) == IF ev[n].set THEN ev[n].val ELSE <<>>

SourceOf(fm, ev, n) ==
    IF fm[n].override # PyNone THEN "override"
    ELSE IF fm[n].flag_type = "bool"
    THEN IF Means(EnvString(ev, n), EnabledWords \cup DisabledWords)
         THEN "environment" ELSE "default"
    ELSE IF Core(EnvString(ev, n)) # <<>> THEN "environment" ELSE "default"

ExpectedPlain(fm, ev, n) ==
    CASE SourceOf(fm, ev, n) = "override" -> fm[n].override
      [] SourceOf(fm, ev, n) = "environment" ->
            IF fm[n].flag_type = "bool"
            THEN PyBool(Means(EnvString(ev, n), EnabledWords))
            ELSE PyStr(Core(EnvString(ev, n)))
      [] OTHER ->
            IF fm[n].default # PyNone THEN fm[n].default
            ELSE IF fm[n].flag_type = "bool" THEN PyBool(FALSE)
            ELSE PyStr(<<>>)

Expected(fm, ev, n) ==
    IF SourceOf(fm, ev, n) = "default" /\ fm[n].default = ScopePrefixDefault
    THEN IF ExpectedPlain(fm, ev, "NO_UNDERSCORE").b
         THEN PyStr(<<>>) ELSE PyStr(<<"_">>)
    ELSE ExpectedPlain(fm, ev, n)

----------------------------------------------------------------------------
(* Properties of the registry *)

Outcome(r) == [kind |-> r.kind, val |-> r.val, exc |-> r.exc]

(* C1: once an assignment Flags.<name> = v has returned, every read of    *)
(* <name> returns exactly v, falsy values included, whatever the           *)
(* environment variable of the flag holds or is changed to, until another  *)
(* assignment to the same name returns; HIDE reads False before any        *)
(* assignment and any environment.                                         *)
C1_OverrideWins ==
    /\ \A n \in DOMAIN flag_map :
          last_set[n] # PyNone
              => GetAttr(flag_map, env, n) = Return(last_set[n])
    /\ ret.op = "get" /\ last_set[ret.name] # PyNone
          => Outcome(ret) = Return(last_set[ret.name])
    /\ "HIDE" \in DOMAIN flag_map /\ last_set["HIDE"] = PyNone /\ ~env["HIDE"].set
          => GetAttr(flag_map, env, "HIDE") = Return(PyBool(FALSE))

C1_Witness ==
    /\ ret.op = "get" /\ ret.name = "HIDE" /\ ret.val = PyBool(TRUE)
    /\ last_set["HIDE"] = PyBool(TRUE)
    /\ env["HIDE"] = [set |-> TRUE, val |-> <<"0">>]

(* C2: an assignment of a value whose type is not the flag's declared type *)
(* raises ValueError and leaves every override slot as it was, whether the *)
(* slot was set or not, so that the flag reads after it what it read       *)
(* before it; after an assignment that raised, every slot still holds the  *)
(* value of the last assignment that returned.                             *)
C2_WrongTypeRejected ==
    /\ \A n \in DOMAIN flag_map, v \in SetValues :
          v.t # flag_map[n].flag_type
              => /\ SetAttr(flag_map, n, v).out = Raise("ValueError")
                 /\ SetAttr(flag_map, n, v).flag_map = flag_map
                 /\ GetAttr(SetAttr(flag_map, n, v).flag_map, env, n)
                        = GetAttr(flag_map, env, n)
    /\ ret.op = "set" /\ ret.kind = "raise"
          => /\ ret.exc = "ValueError"
             /\ \A n \in DOMAIN flag_map : flag_map[n].override = last_set[n]

C2_Witness ==
    /\ ret.op = "set" /\ ret.kind = "raise" /\ ret.name = "SCOPE_PREFIX"
    /\ flag_map["SCOPE_PREFIX"].override = PyStr(<<"x">>)

(* C3: a bool flag with no override whose environment string, trimmed and *)
(* compared without regard to letter case, is an enabled word reads True,  *)
(* and one whose string is a disabled word reads False, whatever default   *)
(* the flag declares.                                                      *)
C3_BooleanVocabulary ==
    /\ \A n \in DOMAIN flag_map :
          flag_map[n].flag_type = "bool" /\ flag_map[n].override = PyNone /\ env[n].set
              => /\ Means(env[n].val, EnabledWords)
                      => GetAttr(flag_map, env, n) = Return(PyBool(TRUE))
                 /\ Means(env[n].val, DisabledWords)
                      => GetAttr(flag_map, env, n) = Return(PyBool(FALSE))
    /\ (/\ ret.op = "get"
        /\ flag_map[ret.name].flag_type = "bool"
        /\ flag_map[ret.name].override = PyNone
        /\ env[ret.name].set)
          => /\ Means(env[ret.name].val, EnabledWords) => Outcome(ret) = Return(PyBool(TRUE))
             /\ Means(env[ret.name].val, DisabledWords) => Outcome(ret) = Return(PyBool(FALSE))

C3_Witness ==
    /\ ret.op = "get" /\ ret.name = "VERBOSE" /\ ret.val = PyBool(FALSE)
    /\ flag_map["VERBOSE"].default = PyBool(TRUE)
    /\ flag_map["VERBOSE"].override = PyNone
    /\ env["VERBOSE"] = [set |-> TRUE, val |-> <<"\t", " ", "o", "F", "f", " ", "\n">>]

(* C4: a bool flag with no override whose environment string is not blank *)
(* and is neither an enabled nor a disabled word reads without an error    *)
(* what it reads with the variable absent: its default if it declares one, *)
(* else False.                                                             *)
C4_MalformedBooleanFallsThrough ==
    /\ \A n \in DOMAIN flag_map :
          (/\ flag_map[n].flag_type = "bool"
           /\ flag_map[n].override = PyNone
           /\ env[n].set
           /\ Core(env[n].val) # <<>>
           /\ ~Means(env[n].val, EnabledWords \cup DisabledWords))
          => /\ GetAttr(flag_map, env, n).kind = "return"
             /\ GetAttr(flag_map, env, n)
                    = GetAttr(flag_map, [env EXCEPT ![n] = Unset], n)
             /\ GetAttr(flag_map, env, n).val
                    = IF flag_map[n].default # PyNone
                      THEN flag_map[n].default ELSE PyBool(FALSE)
    /\ (/\ ret.op = "get"
        /\ flag_map[ret.name].flag_type = "bool"
        /\ flag_map[ret.name].override = PyNone
        /\ Core(EnvString(env, ret.name)) # <<>>
        /\ ~Means(EnvString(env, ret.name), EnabledWords \cup DisabledWords))
          => Outcome(ret) = GetAttr(flag_map, [env EXCEPT ![ret.name] = Unset], ret.name)

C4_Witness ==
    /\ ret.op = "get" /\ ret.name = "VERBOSE" /\ Outcome(ret) = Return(PyBool(TRUE))
    /\ flag_map["VERBOSE"].override = PyNone
    /\ env["VERBOSE"] = [set |-> TRUE, val |-> <<"b", "a", "n", "a", "n", "a">>]

(* C5: a read returns the override if one is set; else the value of the   *)
(* flag's environment string if that is usable, in preference to the plain *)
(* or computed default; and the default only when neither exists. With     *)
(* JISHAKU_SCOPE_PREFIX holding x and no override, SCOPE_PREFIX reads 'x'  *)
(* whatever NO_UNDERSCORE resolves to.                                     *)
C5_PriorityOrder ==
    /\ \A n \in DOMAIN flag_map :
          GetAttr(flag_map, env, n) = Return(Expected(flag_map, env, n))
    /\ ret.op = "get"
          => Outcome(ret) = Return(Expected(flag_map, env, ret.name))
    /\ (/\ "SCOPE_PREFIX" \in DOMAIN flag_map
        /\ flag_map["SCOPE_PREFIX"].override = PyNone
        /\ env["SCOPE_PREFIX"] = [set |-> TRUE, val |-> <<" ", "x">>])
          => GetAttr(flag_map, env, "SCOPE_PREFIX") = Return(PyStr(<<"x">>))

C5_Witness ==
    /\ ret.op = "get" /\ ret.name = "SCOPE_PREFIX" /\ ret.val = PyStr(<<"x">>)
    /\ flag_map["SCOPE_PREFIX"].override = PyNone
    /\ env["SCOPE_PREFIX"] = [set |-> TRUE, val |-> <<" ", "x">>]
    /\ flag_map["NO_UNDERSCORE"].override = PyBool(TRUE)

(* C6: with no override and no usable environment string on SCOPE_PREFIX, *)
(* SCOPE_PREFIX reads '_' when NO_UNDERSCORE resolves to False and ''      *)
(* when it resolves to True, whether NO_UNDERSCORE has its value from its  *)
(* override, from its environment string or from its default.              *)
C6_ScopePrefixFollowsNoUnderscore ==
    LET prefix == GetAttr(flag_map, env, "SCOPE_PREFIX")
        dep == GetAttr(flag_map, env, "NO_UNDERSCORE")
        over == flag_map["NO_UNDERSCORE"].override
        word == EnvString(env, "NO_UNDERSCORE")
    IN  flag_map["SCOPE_PREFIX"].override = PyNone
            /\ Core(EnvString(env, "SCOPE_PREFIX")) = <<>>
        => /\ dep.kind = "return" /\ dep.val \in {PyBool(TRUE), PyBool(FALSE)}
           /\ dep.val = PyBool(FALSE) => prefix = Return(PyStr(<<"_">>))
           /\ dep.val = PyBool(TRUE) => prefix = Return(PyStr(<<>>))
           /\ over = PyBool(TRUE) => prefix = Return(PyStr(<<>>))
           /\ over = PyBool(FALSE) => prefix = Return(PyStr(<<"_">>))
           /\ over = PyNone /\ Means(word, EnabledWords) => prefix = Return(PyStr(<<>>))
           /\ over = PyNone /\ ~Means(word, EnabledWords) => prefix = Return(PyStr(<<"_">>))
           /\ ret.op = "get" /\ ret.name = "SCOPE_PREFIX" => Outcome(ret) = prefix

C6_Witness ==
    /\ ret.op = "get" /\ ret.name = "SCOPE_PREFIX" /\ ret.val = PyStr(<<>>)
    /\ flag_map["SCOPE_PREFIX"].override = PyNone
    /\ ~env["SCOPE_PREFIX"].set
    /\ flag_map["NO_UNDERSCORE"].override = PyNone
    /\ env["NO_UNDERSCORE"] = [set |-> TRUE, val |-> <<"O", "n">>]

(* C7: a flag with no override whose environment variable is absent,      *)
(* empty or all whitespace reads its declared default if it declares one,  *)
(* and otherwise the zero value of its type: False for bool, '' for str.   *)
C7_DefaultOrZero ==
    LET blank(n) == \A k \in 1..Len(EnvString(env, n)) : EnvString(env, n)[k] \in Whitespace
        computed == IF GetAttr(flag_map, env, "NO_UNDERSCORE").val = PyBool(TRUE)
                    THEN PyStr(<<>>) ELSE PyStr(<<"_">>)
        default(n) ==
            IF flag_map[n].default = PyNone
            THEN CASE flag_map[n].flag_type = "bool" -> PyBool(FALSE)
                   [] flag_map[n].flag_type = "str" -> PyStr(<<>>)
                   [] flag_map[n].flag_type = "int" -> PyInt(0)
            ELSE IF flag_map[n].default = ScopePrefixDefault THEN computed
            ELSE flag_map[n].default
    IN  /\ \A n \in DOMAIN flag_map :
              flag_map[n].override = PyNone /\ blank(n)
                  => GetAttr(flag_map, env, n) = Return(default(n))
        /\ ret.op = "get" /\ flag_map[ret.name].override = PyNone /\ blank(ret.name)
              => Outcome(ret) = Return(default(ret.name))

C7_Witness ==
    /\ ret.op = "get" /\ ret.name = "GREETING" /\ ret.val = PyStr(<<"h", "i">>)
    /\ flag_map["GREETING"].override = PyNone
    /\ env["GREETING"] = [set |-> TRUE, val |-> <<" ", "\n">>]

(* the flags with, as overrides, the values last assigned to them *)
Assigned == [n \in DOMAIN flag_map |-> [flag_map[n] EXCEPT !.override = last_set[n]]]

(* C8: every read resolves from the sources as they stand when it is made: *)
(* it returns the value that the last assignment, the current environment  *)
(* and the default give, whatever earlier reads returned and whatever the  *)
(* environment held then; and a read that preceded an assignment does not  *)
(* fix what the flag reads after the assignment.                           *)
C8_NoCaching ==
    [][/\ ret'.op = "get" /\ Get(ret'.name)
             => Outcome(ret') = Return(Expected(Assigned, env, ret'.name))
       /\ (/\ ret'.op = "set" /\ ret'.kind = "return"
           /\ ret.op = "get" /\ ret.name = ret'.name)
             => GetAttr(flag_map', env', ret'.name) = Return(last_set'[ret'.name])]_vars

C8_Witness ==
    /\ ret.op = "get" /\ ret.name = "HIDE" /\ ret.val = PyBool(TRUE)
    /\ flag_map["HIDE"].override = PyNone
    /\ env["HIDE"] = [set |-> TRUE, val |-> <<"O", "n">>]

(* C9: a read changes no override slot, also when it evaluates a computed *)
(* default and so reads another flag, and when the conversion of the      *)
(* environment string raises.                                             *)
C9_GetLeavesOverrides ==
    [][ret'.op = "get" /\ Get(ret'.name)
          => \A m \in DOMAIN flag_map :
                flag_map'[m].override = flag_map[m].override]_vars

C9_Witness ==
    /\ ret.op = "get" /\ ret.name = "LIMIT"
    /\ ret.kind = "raise" /\ ret.exc = "ValueError"
    /\ flag_map["LIMIT"].override = PyNone
    /\ flag_map["NO_UNDERSCORE"].override = PyBool(TRUE)

(* C10: an override slot changes only in an assignment to its flag that   *)
(* returns, and a slot that is set is never unset again.                   *)
C10_OverrideStaysSet ==
    [][flag_map' # flag_map
          => \A n \in DOMAIN flag_map :
                /\ flag_map[n].override # PyNone => flag_map'[n].override # PyNone
                /\ flag_map'[n].override # flag_map[n].override
                      => ret'.op = "set" /\ ret'.kind = "return" /\ ret'.name = n]_vars

C10_Witness ==
    /\ ret.op = "set" /\ ret.kind = "raise" /\ ret.name = "HIDE"
    /\ flag_map["HIDE"].override = PyBool(FALSE)
    /\ env["HIDE"].set

(* a decimal integer literal: an optional sign, then digits only *)
DecimalLiteral(s) ==
    LET digits == IF s # <<>> /\ s[1] \in {"+", "-"} THEN Tail(s) ELSE s
    IN  /\ digits # <<>>
        /\ \A k \in 1..Len(digits) :
              digits[k] \in {"0", "1", "2", "3", "4", "5", "6", "7", "8", "9"}

(* C11: a flag that is not boolean, has no override, and whose environment *)
(* string is non-empty once trimmed but is not a value of the flag's type   *)
(* (an int flag and a string that is no decimal literal) reads as an error: *)
(* the read raises, it returns neither the default nor the zero value, and  *)
(* after it every override slot is as the assignments left it.              *)
C11_ConversionErrorRaises ==
    /\ \A n \in DOMAIN flag_map :
          (/\ flag_map[n].flag_type = "int"
           /\ flag_map[n].override = PyNone
           /\ Core(EnvString(env, n)) # <<>>
           /\ ~DecimalLiteral(Core(EnvString(env, n))))
              => /\ GetAttr(flag_map, env, n).kind = "raise"
                 /\ GetAttr(flag_map, env, n).exc = "ValueError"
                 /\ (ret.op = "get" /\ ret.name = n) => ret.kind = "raise"
    /\ (ret.op = "get" /\ ret.kind = "raise")
          => \A n \in DOMAIN flag_map : flag_map[n].override = last_set[n]

C11_Witness ==
    /\ ret.op = "get" /\ ret.name = "LIMIT" /\ ret.kind = "raise"
    /\ env["LIMIT"] = [set |-> TRUE, val |-> <<"b", "a", "n", "a", "n", "a">>]
    /\ \A n \in DOMAIN flag_map : flag_map[n].override = PyNone

(* a class body with an annotation that is a string, not a type *)
Stringified(body) ==
    \E k \in 1..Len(body) : body[k].flag_type \notin {"bool", "str", "int"}

(* C12: a class statement whose body has a stringified annotation, at    *)
(* whatever position, raises; so no read or assignment is ever made on a  *)
(* class that has a flag whose type is a string.                          *)
C12_StringifiedTypeFailsDeclaration ==
    /\ (ret.op = "class" /\ Stringified(ClassBodies[ret.name]))
          => ret.kind = "raise"
    /\ ret.op \in {"get", "set"}
          => \A n \in DOMAIN flag_map : flag_map[n].flag_type \in {"bool", "str", "int"}

(* a class body that names the same flag more than once *)
Repeated(body) ==
    \E j, k \in 1..Len(body) : j < k /\ body[j].name = body[k].name

(* C13: a class statement whose body names a flag twice raises; and a    *)
(* class statement that returned left exactly one definition per name of *)
(* its body.                                                             *)
C13_RepeatedNameFailsDeclaration ==
    /\ (ret.op = "class" /\ Repeated(ClassBodies[ret.name]))
          => ret.kind = "raise"
    /\ (ret.op = "class" /\ ret.kind = "return")
          => /\ DOMAIN flag_map =
                    {ClassBodies[ret.name][k].name :
                        k \in 1..Len(ClassBodies[ret.name])}
             /\ \A n \in DOMAIN flag_map : flag_map[n].name = n

(* C15: a class statement that returned left every flag's override slot  *)
(* unset, whatever the form of the flag's default in the body: none, a   *)
(* value, a function, or a pair (default, handler) whose handler is not  *)
(* None; so the reads that follow it resolve from the environment or the *)
(* default until an assignment returns.                                  *)
C15_DeclaredWithoutOverride ==
    /\ (ret.op = "class" /\ ret.kind = "return")
          => \A n \in DOMAIN flag_map : flag_map[n].override = PyNone
    /\ \A n \in DOMAIN flag_map :
          last_set[n] = PyNone => SourceOf(flag_map, env, n) # "override"

(* what an assignment leaves alone in the registry: the names, and every *)
(* flag's type and default, and every override but that of the flag      *)
(* assigned to                                                           *)
OnlyOverrideOf(name, fm, fm2) ==
    /\ DOMAIN fm2 = DOMAIN fm
    /\ \A n \in DOMAIN fm :
          /\ fm2[n].name = fm[n].name
          /\ fm2[n].flag_type = fm[n].flag_type
          /\ fm2[n].default = fm[n].default
          /\ n # name => fm2[n].override = fm[n].override

Returned(th) == ~Running(th) /\ th.name # ""

(* the next step of a read in progress *)
StepOf(t) == TestOverride(t) \/ ReturnOverride(t) \/ ReadEnvironment(t)

(* C14: with assignments to a flag made by other threads while a read of *)
(* that flag is in progress, the override slot holds at every moment the *)
(* value of the assignment that returned last; the read returns what the *)
(* flag resolved to when the read began or a value that one of the       *)
(* assignments wrote; and a read in progress can always take its next    *)
(* step.                                                                 *)
C14_LastWriteWins ==
    /\ \A n \in DOMAIN flag_map : flag_map[n].override = last_set[n]
    /\ \A t \in Readers :
          /\ (Returned(threads[t]) /\ threads[t].allowed # {})
                => threads[t].got \in threads[t].allowed
          /\ Running(threads[t]) => ENABLED StepOf(t)

C14_Witness ==
    /\ Returned(threads["reader"])
    /\ threads["reader"].name = "NO_UNDERSCORE"
    /\ threads["reader"].got = Return(PyBool(FALSE))
    /\ threads["reader"].allowed =
          {Return(PyBool(FALSE)), Return(PyBool(TRUE))}
    /\ flag_map["NO_UNDERSCORE"].override = PyBool(TRUE)

(* what flag n resolves to, given its sources v *)
Resolution(v) == IF v.override # PyNone THEN Return(v.override) ELSE v.rest

(* when nothing was written since the default function was called, it *)
(* read what NO_UNDERSCORE resolves to then, not when the read began   *)
ReadsWhenCalled(th) ==
    \A v \in th.views : th.views = {v} => th.dep = Resolution(v)

(* C16 as stated: a read of SCOPE_PREFIX that called the default function *)
(* returns the prefix for what NO_UNDERSCORE resolved to when the         *)
(* function read it, and always the prefix for a value that               *)
(* NO_UNDERSCORE resolved to at some instant during the read.             *)
C16_PrefixOfAResolvedValue ==
    \A t \in Readers :
        (Returned(threads[t]) /\ threads[t].dep # NoRead)
            => /\ ReadsWhenCalled(threads[t])
               /\ \E o \in threads[t].seen : threads[t].got = ScopePrefixOf(o)

(* C16, amended: such a read returns the prefix for what the function's  *)
(* read of NO_UNDERSCORE returned; that is what NO_UNDERSCORE resolved   *)
(* to when the function was called if nothing was written since, and in  *)
(* any case the override or the environment-or-default value that        *)
(* NO_UNDERSCORE had at some instant since the function was called.      *)
C16_PrefixOfTheProvidersRead ==
    \A t \in Readers :
        (Returned(threads[t]) /\ threads[t].dep # NoRead)
            => /\ ReadsWhenCalled(threads[t])
               /\ threads[t].got = ScopePrefixOf(threads[t].dep)
               /\ \E v \in threads[t].views :
                     threads[t].dep \in {Return(v.override), v.rest}

C16_Witness ==
    /\ Returned(threads["reader"])
    /\ threads["reader"].name = "SCOPE_PREFIX"
    /\ threads["reader"].got = Return(PyStr(<<>>))
    /\ threads["reader"].seen = {Return(PyBool(FALSE)), Return(PyBool(TRUE))}
    /\ threads["reader"].views =
          {[override |-> PyBool(TRUE), rest |-> Return(PyBool(FALSE))]}

(* the calls of Flag.resolve on a stack *)
Resolves(stack) == {k \in 1..Len(stack) : stack[k].fn = "resolve"}

(* C18: in class Flags the only default that is a function is that of    *)
(* SCOPE_PREFIX, it reads NO_UNDERSCORE, and NO_UNDERSCORE has no        *)
(* default; so a read nests resolve at most one level, takes at most     *)
(* four steps, can always take its next step, and every flag resolves to *)
(* a value.                                                              *)
C18_ShippedReadsTerminate ==
    /\ \A n \in DOMAIN flag_map :
          /\ flag_map[n].default.t = "function" <=> n = "SCOPE_PREFIX"
          /\ flag_map[n].default.t = "function"
                => /\ Reads(flag_map[n].default) = "NO_UNDERSCORE"
                   /\ flag_map["NO_UNDERSCORE"].default = PyNone
          /\ GetAttr(flag_map, env, n).kind = "return"
    /\ \A t \in Readers :
          /\ Cardinality(Resolves(threads[t].stack)) <= 2
          /\ threads[t].steps <= 4
          /\ Running(threads[t]) => ENABLED StepOf(t)
          /\ Returned(threads[t]) => threads[t].got.kind = "return"

C18_Witness ==
    /\ Returned(threads["reader"])
    /\ threads["reader"].name = "SCOPE_PREFIX"
    /\ threads["reader"].steps = 4
    /\ threads["reader"].dep = Return(PyBool(TRUE))

====
